---- MODULE Spec2Model ----
(***************************************************************************)
(* Ricettario (src/app.py): a recipe table in SQLite, a tag codec, a LIKE  *)
(* search, image files next to the rows, and the Streamlit form that       *)
(* drives them.                                                            *)
(*                                                                         *)
(* A Python str is modelled as a sequence of one-character strings, so    *)
(* that strip, split, join, lower and LIKE are computed character by       *)
(* character.  << >> is the empty str.  None is the model value NoneVal.   *)
(***************************************************************************)
EXTENDS Integers, Sequences, FiniteSets, TLC

VARIABLES
  rows,     \* the recipes table: id -> row
  seq,      \* sqlite_sequence: the largest id AUTOINCREMENT has handed out
  files,    \* the image files that exist on disk
  made,     \* how many image file names uuid4 has produced
  clock,    \* the UTC clock: [s |-> seconds, us |-> microseconds]
  session,  \* st.session_state and the pending st.rerun()
  event,    \* the user event the latest script run served, if the step was one
  last,     \* the last call: its name, arguments, outcome and return value
  issued,   \* history: the ids create_recipe has returned
  codec     \* the tag codec exercised on its own: input and outputs

vars == <<rows, seq, files, made, clock, session, event, last, issued, codec>>

NoneVal == "None"

(***************************************************************************)
(* Characters and strings                                                  *)
(***************************************************************************)

\* str.strip() with no argument removes whitespace.
Whitespace == {" "}

\* Code points of the characters the model uses (ASCII).
Code(c) ==
  CASE c = " " -> 32
    [] c = "%" -> 37
    [] c = "." -> 46
    [] c = "0" -> 48
    [] c = "1" -> 49
    [] c = "2" -> 50
    [] c = "3" -> 51
    [] c = "4" -> 52
    [] c = "5" -> 53
    [] c = "6" -> 54
    [] c = "7" -> 55
    [] c = "8" -> 56
    [] c = "9" -> 57
    [] c = "A" -> 65
    [] c = "B" -> 66
    [] c = "_" -> 95
    [] c = "a" -> 97
    [] c = "b" -> 98
    [] c = "|" -> 124

\* str.lower() / SQL lower() on one ASCII character.
LowerChar(c) ==
  CASE c = "A" -> "a"
    [] c = "B" -> "b"
    [] OTHER -> c

lower(s) == [i \in DOMAIN s |-> LowerChar(s[i])]

RECURSIVE lstrip(_)
lstrip(s) ==
  IF s # << >> /\ Head(s) \in Whitespace THEN lstrip(Tail(s)) ELSE s

RECURSIVE rstrip(_)
rstrip(s) ==
  IF s # << >> /\ s[Len(s)] \in Whitespace
    THEN rstrip(SubSeq(s, 1, Len(s) - 1))
    ELSE s

strip(s) == rstrip(lstrip(s))

\* str.split("|"): the pieces between delimiters, empty pieces included.
RECURSIVE split(_, _)
split(s, d) ==
  IF \E i \in DOMAIN s : s[i] = d
    THEN LET i == CHOOSE k \in DOMAIN s :
                    s[k] = d /\ \A j \in 1..(k - 1) : s[j] # d
         IN  <<SubSeq(s, 1, i - 1)>> \o split(SubSeq(s, i + 1, Len(s)), d)
    ELSE <<s>>

\* "|".join(parts)
RECURSIVE join(_, _)
join(d, parts) ==
  IF parts = << >> THEN << >>
  ELSE IF Len(parts) = 1 THEN parts[1]
  ELSE parts[1] \o <<d>> \o join(d, Tail(parts))

\* Python's str comparison: lexicographic by code point (SQLite's BINARY
\* collation orders ASCII text the same way).
RECURSIVE StrLess(_, _)
StrLess(s, t) ==
  IF t = << >> THEN FALSE
  ELSE IF s = << >> THEN TRUE
  ELSE IF Head(s) # Head(t) THEN Code(Head(s)) < Code(Head(t))
  ELSE StrLess(Tail(s), Tail(t))

StrLeq(s, t) == s = t \/ StrLess(s, t)

\* [f(x) for x in xs if keep(x)] for the list comprehensions of to_tag_list.
RECURSIVE StripNonEmpty(_)
StripNonEmpty(xs) ==
  IF xs = << >> THEN << >>
  ELSE IF strip(Head(xs)) # << >>
    THEN <<strip(Head(xs))>> \o StripNonEmpty(Tail(xs))
    ELSE StripNonEmpty(Tail(xs))

(***************************************************************************)
(* Tag codec                                                               *)
(***************************************************************************)

\* to_tag_list on a str (every caller in app.py passes row["tags"]).
to_tag_list(tags_csv) ==
  IF tags_csv # << >> THEN StripNonEmpty(split(tags_csv, "|")) ELSE << >>

\* to_tag_list on a list: the isinstance(tags_csv, list) branch.
to_tag_list_of_list(tags_csv) == StripNonEmpty(tags_csv)

\* The loop of from_tag_list: seen is the set of lowered tags met so far,
\* ordered the survivors.
RECURSIVE from_tag_list_loop(_, _, _)
from_tag_list_loop(tags, seen, ordered) ==
  IF tags = << >> THEN ordered
  ELSE LET t == strip(Head(tags))
       IN  IF t # << >> /\ lower(t) \notin seen
             THEN from_tag_list_loop(Tail(tags), seen \cup {lower(t)},
                                     Append(ordered, t))
             ELSE from_tag_list_loop(Tail(tags), seen, ordered)

from_tag_list(tags) == join("|", from_tag_list_loop(tags, {}, << >>))

(***************************************************************************)
(* Timestamps: datetime.utcnow().isoformat()                               *)
(***************************************************************************)

DigitChar(n) == <<"0", "1", "2", "3", "4", "5", "6", "7", "8", "9">>[n + 1]

\* n in decimal, zero-padded to w digits.
RECURSIVE Pad(_, _)
Pad(n, w) == IF w = 0 THEN << >> ELSE Pad(n \div 10, w - 1) \o <<DigitChar(n % 10)>>

\* isoformat() writes the seconds as two digits and leaves the fraction out
\* when the microsecond is 0, else adds "." and six digits.  The date, hour
\* and minute fields before the seconds are the same in every timestamp of
\* the model and are left out.
isoformat(t) ==
  IF t.us = 0 THEN Pad(t.s, 2) ELSE Pad(t.s, 2) \o <<".">> \o Pad(t.us, 6)

utcnow == clock

(***************************************************************************)
(* Recipe store                                                            *)
(***************************************************************************)

Call(op, id, ok, res) == [op |-> op, id |-> id, ok |-> ok, res |-> res]

\* init_db on a fresh database file: an empty table whose AUTOINCREMENT
\* sequence has handed out nothing.
init_db == rows = << >> /\ seq = 0

\* fetch_recipe: Optional[Row] as a list, << >> for None, <<row>> for a row.
fetch_recipe(recipe_id) ==
  IF recipe_id \in DOMAIN rows THEN <<rows[recipe_id]>> ELSE << >>

\* INTEGER PRIMARY KEY without AUTOINCREMENT: one more than the largest id
\* in the table now.
MaxRowIdPlusOne ==
  IF DOMAIN rows = {} THEN 1
  ELSE (CHOOSE m \in DOMAIN rows : \A i \in DOMAIN rows : i <= m) + 1

\* INSERT into a table with INTEGER PRIMARY KEY AUTOINCREMENT: the new id
\* is one more than the largest id ever handed out, kept in sqlite_sequence.
AutoIncrementId == seq + 1

\* The row create_recipe inserts.
NewRow(title, ingredients, steps, tags, prep_minutes, image_path, now) ==
  [title |-> title, ingredients |-> ingredients, steps |-> steps,
   tags |-> from_tag_list(tags), prep_minutes |-> prep_minutes,
   image_path |-> image_path, created_at |-> now, updated_at |-> now]

\* A SET clause that also restamps created_at.
SetRowRestamping(old, title, ingredients, steps, tags, prep_minutes, image_path, now) ==
  [old EXCEPT !.title = title, !.ingredients = ingredients, !.steps = steps,
              !.tags = from_tag_list(tags), !.prep_minutes = prep_minutes,
              !.image_path = image_path, !.created_at = now, !.updated_at = now]

\* The SET clause of update_recipe applied to a row.
SetRow(old, title, ingredients, steps, tags, prep_minutes, image_path, now) ==
  [old EXCEPT !.title = title, !.ingredients = ingredients, !.steps = steps,
              !.tags = from_tag_list(tags), !.prep_minutes = prep_minutes,
              !.image_path = image_path, !.updated_at = now]

\* The table after the INSERT of create_recipe.
InsertRow(id, row) == [i \in DOMAIN rows \cup {id} |-> IF i = id THEN row ELSE rows[i]]

\* The table after UPDATE ... WHERE id=?: zero rows when the id is absent.
UpdateRow(recipe_id, title, ingredients, steps, tags, prep_minutes, image_path, now) ==
  [i \in DOMAIN rows |->
     IF i = recipe_id
       THEN SetRow(rows[i], title, ingredients, steps, tags, prep_minutes,
                   image_path, now)
       ELSE rows[i]]

\* The table after DELETE ... WHERE id=?.
DeleteRow(recipe_id) == [i \in DOMAIN rows \ {recipe_id} |-> rows[i]]

\* create_recipe; db is whether the INSERT succeeds (a failure raises out
\* of the with block, which rolls back).
create_recipe(title, ingredients, steps, tags, prep_minutes, image_path, db) ==
  LET now == isoformat(utcnow)
      id  == AutoIncrementId
  IN  IF db
        THEN /\ rows' = InsertRow(id, NewRow(title, ingredients, steps, tags,
                                             prep_minutes, image_path, now))
             /\ seq' = id
             /\ issued' = issued \cup {id}
             /\ last' = Call("create", id, TRUE, <<id>>)
        ELSE /\ UNCHANGED <<rows, seq, issued>>
             /\ last' = Call("create", 0, FALSE, << >>)

\* update_recipe
update_recipe(recipe_id, title, ingredients, steps, tags, prep_minutes, image_path, db) ==
  LET now == isoformat(utcnow)
  IN  IF db
        THEN /\ rows' = UpdateRow(recipe_id, title, ingredients, steps, tags,
                                  prep_minutes, image_path, now)
             /\ last' = Call("update", recipe_id, TRUE, << >>)
        ELSE /\ UNCHANGED rows
             /\ last' = Call("update", recipe_id, FALSE, << >>)

\* What delete_recipe finds at row["image_path"].
FileCase(recipe_id, rm) ==
  IF recipe_id \notin DOMAIN rows THEN "no_row"
  ELSE IF rows[recipe_id].image_path = NoneVal THEN "no_image"
  ELSE IF rows[recipe_id].image_path \notin files THEN "missing_file"
  ELSE IF rm THEN "removed"
  ELSE "remove_failed"

\* delete_recipe without its try/except around os.remove.
delete_recipe_unguarded(recipe_id, rm, db) ==
  LET fc == FileCase(recipe_id, rm)
      raised == fc = "remove_failed" \/ ~db
  IN  /\ files' = IF fc = "removed" THEN files \ {rows[recipe_id].image_path} ELSE files
      /\ rows' = IF raised THEN rows ELSE DeleteRow(recipe_id)
      /\ last' = Call("delete", recipe_id, ~raised,
                      <<fc, IF db THEN "db_ok" ELSE "db_error">>)

\* delete_recipe.  rm is whether os.remove succeeds (its exception is
\* swallowed); db is whether the DELETE statement succeeds (its exception
\* rolls the transaction back and propagates, but the file stays removed).
delete_recipe(recipe_id, rm, db) ==
  LET fc == FileCase(recipe_id, rm)
  IN  /\ files' = IF fc = "removed" THEN files \ {rows[recipe_id].image_path} ELSE files
      /\ rows' = IF db THEN DeleteRow(recipe_id) ELSE rows
      /\ last' = Call("delete", recipe_id, db,
                      <<fc, IF db THEN "db_ok" ELSE "db_error">>)

(***************************************************************************)
(* Queries                                                                 *)
(***************************************************************************)

\* The sequences that hold each element of S once.
Orderings(S) ==
  {p \in [1..Cardinality(S) -> S] : \A i, j \in DOMAIN p : i # j => p[i] # p[j]}

\* rows = SELECT tags FROM recipes; tags.extend(to_tag_list(r["tags"])).
RECURSIVE AllTagsOf(_)
AllTagsOf(ids) ==
  IF ids = {} THEN {}
  ELSE LET i == CHOOSE x \in ids : TRUE
           ts == to_tag_list(rows[i].tags)
       IN  {ts[k] : k \in DOMAIN ts} \cup AllTagsOf(ids \ {i})

\* sorted(set(tags), key=lambda s: s.lower()): set() drops equal strings
\* only; sorted() is stable, and the iteration order of a set of str is
\* not fixed, so entries with equal keys may come out in either order.
list_all_tags ==
  {p \in Orderings(AllTagsOf(DOMAIN rows)) :
     \A i, j \in DOMAIN p : i < j => StrLeq(lower(p[i]), lower(p[j]))}

\* SQLite's LIKE: % matches any run of characters, _ any one character,
\* other characters match themselves without regard to ASCII case.
RECURSIVE Like(_, _)
Like(pattern, s) ==
  IF pattern = << >> THEN s = << >>
  ELSE IF Head(pattern) = "%"
    THEN Like(Tail(pattern), s) \/ (s # << >> /\ Like(pattern, Tail(s)))
  ELSE /\ s # << >>
       /\ (Head(pattern) = "_" \/ LowerChar(Head(pattern)) = LowerChar(Head(s)))
       /\ Like(Tail(pattern), Tail(s))

\* f"%{x.lower()}%"
Wrap(x) == <<"%">> \o lower(x) \o <<"%">>

\* q = f"%{query.lower()}%" if query else "%"
QueryPattern(query) == IF query # << >> THEN Wrap(query) ELSE <<"%">>

\* The WHERE clause search_recipes builds.  The tag predicates are appended
\* with AND to a chain of ORs without parentheses, and in SQL AND binds
\* tighter than OR: they join the last disjunct only.
Where(r, q, tag_like) ==
  \/ Like(q, lower(r.title))
  \/ Like(q, lower(r.ingredients))
  \/ /\ Like(q, lower(r.steps))
     /\ \A k \in DOMAIN tag_like : Like(tag_like[k], lower(r.tags))

\* The ids of the rows the SELECT of search_recipes returns.
Selected(query, with_tags) ==
  {i \in DOMAIN rows :
     Where(rows[i], QueryPattern(query), [k \in DOMAIN with_tags |-> Wrap(with_tags[k])])}

\* search_recipes: the selected rows ORDER BY updated_at DESC (rows with
\* equal updated_at in an order SQL does not fix), as a list of ids.
search_recipes(query, with_tags) ==
  {p \in Orderings(Selected(query, with_tags)) :
     \A i, j \in DOMAIN p :
        i < j => StrLeq(rows[p[j]].updated_at, rows[p[i]].updated_at)}

(***************************************************************************)
(* Image files                                                             *)
(***************************************************************************)

\* os.path.join(IMG_DIR, f"{uuid.uuid4().hex}{ext}"): the n-th generated name.
ImgNames == <<"img1", "img2", "img3", "img4", "img5", "img6">>
ImgName(n) == ImgNames[n]

\* An upload is absent (NoneVal) or a file; opening and saving it goes one
\* of three ways: "ok"; "decode_error" (Image.open raises, nothing is
\* written); "write_error" (img.save raises after creating the file).
UploadOutcomes == {"ok", "decode_error", "write_error"}

\* save_uploaded_image: the path it returns.
save_uploaded_image(file, outcome) ==
  IF file = NoneVal THEN NoneVal
  ELSE IF outcome = "ok" THEN ImgName(made + 1)
  ELSE NoneVal

\* The files on disk after save_uploaded_image.
FilesAfterSave(file, outcome) ==
  IF file # NoneVal /\ outcome \in {"ok", "write_error"}
    THEN files \cup {ImgName(made + 1)}
    ELSE files

\* The names generated after save_uploaded_image.
MadeAfterSave(file) == IF file # NoneVal THEN made + 1 ELSE made

(***************************************************************************)
(* Bounds and inputs                                                       *)
(***************************************************************************)

MaxId == 2        \* create_recipe is called at most this many times
MaxFiles == 2     \* the form saves an upload at most this many times
MaxStored == 1    \* uploads saved on their own at most this many times
MaxTags == 2      \* length of the tag lists given to the codec
MaxTagLen == 2    \* length of the tags given to the codec
MaxStoreTags == 3 \* length of the tag lists given to create and update

\* The instants the clock shows: a whole second, the last microsecond of
\* it, and the next whole second.
Times == { [s |-> 0, us |-> 0], [s |-> 0, us |-> 999999], [s |-> 1, us |-> 0] }

\* t is later than u.
Later(t, u) == t.s > u.s \/ (t.s = u.s /\ t.us > u.us)

\* Optional[int] as a list: << >> for None, <<n>> for n.
NoPrep == << >>

\* The image paths a caller can hold: None, or a name generated so far.
KnownPaths == {NoneVal} \cup {ImgName(k) : k \in 1..made}

Idle == [pc |-> "idle", L |-> << >>, enc |-> << >>, dec |-> << >>]

NoEvent == [kind |-> "none", editing |-> 0, upload |-> "none", result |-> "none"]

\* edit_id 0 stands for None (both are falsy where the script tests it).
NoSession == [edit_id |-> 0, show_balloons |-> FALSE, rerun |-> FALSE]

\* An empty image directory (os.makedirs), a fresh table, a fresh session.
InitStore ==
  /\ init_db
  /\ files = {}
  /\ made = 0
  /\ clock = [s |-> 0, us |-> 0]
  /\ session = NoSession
  /\ event = NoEvent
  /\ last = Call("none", 0, TRUE, << >>)
  /\ issued = {}

(***************************************************************************)
(* The store called directly: lifecycle of rows, ids, timestamps, files    *)
(***************************************************************************)

Text == <<"a">>

Create ==
  /\ seq < MaxId
  /\ \E image_path \in KnownPaths, db \in BOOLEAN :
       create_recipe(Text, Text, Text, << >>, NoPrep, image_path, db)
  /\ UNCHANGED <<files, made, clock, session, event, codec>>

Update ==
  /\ \E recipe_id \in 1..MaxId, image_path \in KnownPaths, db \in BOOLEAN :
       update_recipe(recipe_id, Text, Text, Text, << >>, NoPrep, image_path, db)
  /\ UNCHANGED <<seq, files, made, clock, session, event, issued, codec>>

Delete ==
  /\ \E recipe_id \in 1..MaxId, rm \in BOOLEAN, db \in BOOLEAN :
       delete_recipe(recipe_id, rm, db)
  /\ UNCHANGED <<seq, made, clock, session, event, issued, codec>>

\* An upload stored on its own.
StoreImage ==
  /\ made < MaxStored
  /\ \E outcome \in UploadOutcomes :
       /\ files' = FilesAfterSave("upload", outcome)
       /\ made' = MadeAfterSave("upload")
       /\ last' = Call("save_image", 0, outcome = "ok",
                       <<save_uploaded_image("upload", outcome)>>)
  /\ UNCHANGED <<rows, seq, clock, session, event, issued, codec>>

\* Time passes between calls.
Tick ==
  /\ \E t \in Times : Later(t, clock) /\ clock' = t
  /\ last' = Call("tick", 0, TRUE, << >>)
  /\ UNCHANGED <<rows, seq, files, made, session, event, issued, codec>>

Init == InitStore /\ codec = Idle

Next == Create \/ Update \/ Delete \/ StoreImage \/ Tick

Spec == Init /\ [][Next]_vars

(***************************************************************************)
(* Claims about the store called directly (checked under Spec)             *)
(***************************************************************************)

\* C6: delete(id) has no partial effect: no delete_recipe call ends with the
\* image file of the recipe removed while the row is still in the table with
\* that image_path.
C6_DeleteAllOrNothing ==
  [][last'.op = "delete" =>
       ~ \E i \in DOMAIN rows' :
            /\ i = last'.id
            /\ i \in DOMAIN rows
            /\ rows'[i].image_path = rows[i].image_path
            /\ rows[i].image_path \in files
            /\ rows[i].image_path \notin files']_vars

\* C7: the id create_recipe returns was never returned before and is the id
\* of the row it inserts; no other call adds an id to the table, so no row
\* ever moves to another id.
C7_IdsNeverReused ==
  [][IF last'.op = "create" /\ last'.ok
       THEN /\ last'.res[1] \notin issued
            /\ last'.res[1] \notin DOMAIN rows
            /\ DOMAIN rows' = DOMAIN rows \cup {last'.res[1]}
            /\ \A i \in DOMAIN rows : rows'[i] = rows[i]
       ELSE DOMAIN rows' \subseteq DOMAIN rows]_vars

\* C7 witness: id 1 was created and deleted while it was the highest id, and
\* the next create returned 2.
C7_Witness ==
  /\ last.op = "create" /\ last.ok /\ last.res = <<2>>
  /\ issued = {1, 2}
  /\ DOMAIN rows = {2}

\* C8: create stamps created_at = updated_at = now; no call changes the
\* created_at of an existing row; update changes no row but its own and
\* nothing when the id is absent; updated_at >= created_at in every row.
C8_Timestamps ==
  [][/\ (last'.op = "create" /\ last'.ok) =>
          /\ rows'[last'.id].created_at = isoformat(clock)
          /\ rows'[last'.id].updated_at = isoformat(clock)
     /\ \A i \in DOMAIN rows \cap DOMAIN rows' :
          rows'[i].created_at = rows[i].created_at
     /\ last'.op = "update" =>
          /\ DOMAIN rows' = DOMAIN rows
          /\ \A i \in DOMAIN rows : i # last'.id => rows'[i] = rows[i]
     /\ \A i \in DOMAIN rows' :
          StrLeq(rows'[i].created_at, rows'[i].updated_at)]_vars

\* C8 witness: an update at a later time than the create; the update fell on
\* a whole second, so its timestamp has no fraction and is the shorter text.
C8_Witness ==
  /\ last.op = "update" /\ last.ok /\ last.id \in DOMAIN rows
  /\ rows[last.id].updated_at # rows[last.id].created_at
  /\ Len(rows[last.id].updated_at) < Len(rows[last.id].created_at)

\* C9: whatever delete_recipe finds at image_path (no row, no image, a path
\* with no file, a file it removes, a file whose removal fails), if the
\* DELETE statement itself succeeds the call ends without error, the row is
\* gone and every other row is as before; deleting an id that is not in the
\* table changes neither the table nor the files.
C9_DeleteRegardlessOfFile ==
  [][(last'.op = "delete" /\ last'.res[2] = "db_ok") =>
       /\ last'.ok
       /\ last'.id \notin DOMAIN rows'
       /\ DOMAIN rows' = DOMAIN rows \ {last'.id}
       /\ \A i \in DOMAIN rows' : rows'[i] = rows[i]
       /\ last'.res[1] = "no_row" => rows' = rows /\ files' = files]_vars

\* C9 witness: a delete whose os.remove failed: the file is still on disk,
\* the row is gone, another row is still there.
C9_Witness ==
  /\ last.op = "delete" /\ last.ok /\ last.res[1] = "remove_failed"
  /\ last.id \notin DOMAIN rows
  /\ DOMAIN rows # {}
  /\ files # {}

(***************************************************************************)
(* The store queried: rows with different texts and tags, then search and  *)
(* list_all_tags                                                           *)
(***************************************************************************)

\* (title, ingredients, steps) of the recipes given to create and update.
QueryTexts ==
  { <<<<"A">>, <<"b">>, <<"b">>>>,
    <<<<"b">>, <<"b">>, <<"a", "b">>>>,
    <<<<"b">>, <<"b">>, <<"b">>>> }

\* Tag lists without the delimiter: some differ in case only.
QueryTagLists ==
  { << >>, <<<<"A">>>>, <<<<"a">>, <<"B">>>>, <<<<"A", "b">>>> }

\* Free-text queries and required-tag lists given to search.
Queries == { << >>, <<"a">>, <<"B">> }
TagFilters == { << >>, <<<<"a">>>>, <<<<"A">>, <<"b">>>> }

QCreate ==
  /\ seq < MaxId
  /\ \E x \in QueryTexts, tags \in QueryTagLists :
       create_recipe(x[1], x[2], x[3], tags, NoPrep, NoneVal, TRUE)
  /\ UNCHANGED <<files, made, clock, session, event, codec>>

QUpdate ==
  /\ \E recipe_id \in DOMAIN rows, x \in QueryTexts, tags \in QueryTagLists :
       update_recipe(recipe_id, x[1], x[2], x[3], tags, NoPrep, NoneVal, TRUE)
  /\ UNCHANGED <<seq, files, made, clock, session, event, issued, codec>>

QDelete ==
  /\ \E recipe_id \in DOMAIN rows : delete_recipe(recipe_id, TRUE, TRUE)
  /\ UNCHANGED <<seq, made, clock, session, event, issued, codec>>

QTick ==
  /\ \E t \in Times : Later(t, clock) /\ t.us = 0 /\ clock' = t
  /\ last' = Call("tick", 0, TRUE, << >>)
  /\ UNCHANGED <<rows, seq, files, made, session, event, issued, codec>>

Search ==
  /\ \E query \in Queries, with_tags \in TagFilters :
       \E result \in search_recipes(query, with_tags) :
          last' = Call("search", 0, TRUE, <<query, with_tags, result>>)
  /\ UNCHANGED <<rows, seq, files, made, clock, session, event, issued, codec>>

ListAllTags ==
  /\ \E result \in list_all_tags :
       last' = Call("list_all_tags", 0, TRUE, result)
  /\ UNCHANGED <<rows, seq, files, made, clock, session, event, issued, codec>>

NextQuery == QCreate \/ QUpdate \/ QDelete \/ QTick \/ Search \/ ListAllTags

SpecQuery == Init /\ [][NextQuery]_vars

\* needle occurs in hay, case-insensitively.
ContainsNoCase(hay, needle) ==
  \E i \in 0..(Len(hay) - Len(needle)) :
     \A k \in 1..Len(needle) : LowerChar(hay[i + k]) = LowerChar(needle[k])

\* No two entries of the list are equal under case-insensitive comparison.
NoCaseDuplicates(list) ==
  \A i, j \in DOMAIN list : i # j => lower(list[i]) # lower(list[j])

\* C1: search(q, T) returns exactly the rows where q is a case-insensitive
\* substring of title, ingredients or steps (an empty q matches every row)
\* and every tag of T is a case-insensitive substring of the stored tags.
C1_SearchExact ==
  last.op = "search" =>
    LET q == last.res[1]
        T == last.res[2]
        result == last.res[3]
    IN  {result[k] : k \in DOMAIN result} =
          {i \in DOMAIN rows :
             /\ \/ q = << >>
                \/ ContainsNoCase(rows[i].title, q)
                \/ ContainsNoCase(rows[i].ingredients, q)
                \/ ContainsNoCase(rows[i].steps, q)
             /\ \A k \in DOMAIN T : ContainsNoCase(rows[i].tags, T[k])}

\* C2: list_all_tags returns every stored tag, sorted case-insensitively,
\* with no two entries equal under case-insensitive comparison.
C2_DistinctTags ==
  last.op = "list_all_tags" =>
    /\ NoCaseDuplicates(last.res)
    /\ \A i, j \in DOMAIN last.res :
         i < j => StrLeq(lower(last.res[i]), lower(last.res[j]))
    /\ \A r \in DOMAIN rows :
         \A k \in DOMAIN to_tag_list(rows[r].tags) :
            \E m \in DOMAIN last.res :
               lower(last.res[m]) = lower(to_tag_list(rows[r].tags)[k])

(***************************************************************************)
(* The tag codec on its own, and the tags the store keeps                  *)
(***************************************************************************)

\* The strs of at most n characters over the set C.
Strs(C, n) == UNION {[1..k -> C] : k \in 0..n}

\* The lists of at most n elements of S.
Lists(S, n) == UNION {[1..k -> S] : k \in 0..n}

\* Tags may hold letters of either case, whitespace and the delimiter.
TagChars == {"a", "A", " ", "|"}

TagLists == Lists(Strs(TagChars, MaxTagLen), MaxTags)

InitCodec ==
  /\ InitStore
  /\ \E L \in TagLists : codec = [pc |-> "input", L |-> L, enc |-> << >>, dec |-> << >>]

\* enc = from_tag_list(L)
Encode ==
  /\ codec.pc = "input"
  /\ codec' = [codec EXCEPT !.pc = "encoded", !.enc = from_tag_list(codec.L)]
  /\ UNCHANGED <<rows, seq, files, made, clock, session, event, last, issued>>

\* dec = to_tag_list(enc)
Decode ==
  /\ codec.pc = "encoded"
  /\ codec' = [codec EXCEPT !.pc = "decoded", !.dec = to_tag_list(codec.enc)]
  /\ UNCHANGED <<rows, seq, files, made, clock, session, event, last, issued>>

\* dec = to_tag_list(L): the codec given a list that is already decoded.
DecodeList ==
  /\ codec.pc = "input"
  /\ codec' = [codec EXCEPT !.pc = "passed", !.dec = to_tag_list_of_list(codec.L)]
  /\ UNCHANGED <<rows, seq, files, made, clock, session, event, last, issued>>

NextCodec == Encode \/ Decode \/ DecodeList

SpecCodec == InitCodec /\ [][NextCodec]_vars

\* L with each entry trimmed, empty entries dropped and case-insensitive
\* duplicates removed, the first occurrence kept.
RECURSIVE Normalized(_, _)
Normalized(L, kept) ==
  IF L = << >> THEN kept
  ELSE LET t == strip(Head(L))
       IN  IF t = << >> \/ \E k \in DOMAIN kept : lower(kept[k]) = lower(t)
             THEN Normalized(Tail(L), kept)
             ELSE Normalized(Tail(L), Append(kept, t))

\* C4: decode(encode(L)) is L trimmed, without empty entries and without
\* case-insensitive duplicates, in the original order; encode([]) = "" and
\* decode("") = [].
C4_RoundTrip ==
  /\ codec.pc \in {"encoded", "decoded"} /\ codec.L = << >> => codec.enc = << >>
  /\ codec.pc = "decoded" /\ codec.enc = << >> => codec.dec = << >>
  /\ codec.pc = "decoded" => codec.dec = Normalized(codec.L, << >>)

\* Tags given to create and update: two that differ in case only, one with
\* whitespace around it, one that holds the delimiter.
StoreTagWords == { <<"A">>, <<"a">>, <<" ", "b", " ">>, <<"a", "|", "A">> }

StoreTagLists == Lists(StoreTagWords, MaxStoreTags)

TCreate ==
  /\ seq < MaxId
  /\ \E tags \in StoreTagLists :
       create_recipe(Text, Text, Text, tags, NoPrep, NoneVal, TRUE)
  /\ UNCHANGED <<files, made, clock, session, event, codec>>

TUpdate ==
  /\ \E recipe_id \in DOMAIN rows, tags \in StoreTagLists :
       update_recipe(recipe_id, Text, Text, Text, tags, NoPrep, NoneVal, TRUE)
  /\ UNCHANGED <<seq, files, made, clock, session, event, issued, codec>>

NextTags == TCreate \/ TUpdate

SpecTags == Init /\ [][NextTags]_vars

\* C5: the stored tags of every recipe decode to a list with no two entries
\* equal under case-insensitive comparison.
C5_StoredTagsDistinct ==
  \A i \in DOMAIN rows : NoCaseDuplicates(to_tag_list(rows[i].tags))

(***************************************************************************)
(* The Streamlit script: one action per script run                         *)
(***************************************************************************)

\* The sidebar radio.
Modes == {"Ricettario", "Carica una nuova ricetta!"}

\* Two of the labels of TAG_EMOJIS stand for all of them.
TAG_OPTIONS == << <<"A">>, <<"B", "a">> >>

\* What the multiselect can return: options, each at most once.
TagChoices == { <<TAG_OPTIONS[2], TAG_OPTIONS[1]>> }

\* What the user types: blank, or text with whitespace around it.
FormTitles == { <<" ">>, <<" ", "a">> }
FormBodies == { << >>, <<"a", " ">> }

\* number_input with min_value=0.
FormPreps == {0}

\* An uploaded file, or None.
Uploads == {NoneVal, "upload"}

Event(kind, editing, upload, result) ==
  [kind |-> kind, editing |-> editing, upload |-> upload, result |-> result]

NoCall == Call("no_call", 0, TRUE, << >>)

\* Lines 217-219: the balloons are shown once and the flag is cleared.
AfterBalloons(s) == [s EXCEPT !.show_balloons = FALSE]

\* Line 222: the form is shown instead of the list.
FormShown(mode) == mode = "Carica una nuova ricetta!" \/ session.edit_id # 0

\* Lines 225-230: the recipe being edited is gone.
EditTargetGone == session.edit_id # 0 /\ fetch_recipe(session.edit_id) = << >>

\* What became of the upload.
UploadResult(image_file, outcome) ==
  IF image_file = NoneVal THEN "none"
  ELSE IF outcome = "ok" THEN "stored"
  ELSE "failed"

\* Lines 249-251: the image path handed to create_recipe / update_recipe.
FormImagePath(image_file, outcome) ==
  IF image_file # NoneVal
    THEN save_uploaded_image(image_file, outcome)
    ELSE IF session.edit_id # 0
           THEN fetch_recipe(session.edit_id)[1].image_path
           ELSE NoneVal

\* int(prep) if prep else None
FormPrep(prep) == IF prep # 0 THEN <<prep>> ELSE NoPrep

\* Lines 276-278: the session after a submission was saved.
SessionSaved(s) == [edit_id |-> 0, show_balloons |-> TRUE, rerun |-> TRUE]

\* Lines 276-278 run after the validation error too (one indent less).
SessionSavedAnyway(s) == SessionSaved(s)

\* Lines 244-245: the session after a submission was rejected: st.error only.
SessionRejected(s) == AfterBalloons(s)

\* A script run that follows st.rerun(): no button is pressed in it.
Rerun ==
  /\ session.rerun
  /\ session' = [AfterBalloons(session) EXCEPT
                   !.rerun = FALSE,
                   !.edit_id = IF EditTargetGone THEN 0 ELSE @]
  /\ event' = Event("rerun", session.edit_id, "none",
                    IF EditTargetGone THEN "not_found" ELSE "shown")
  /\ last' = NoCall
  /\ UNCHANGED <<rows, seq, files, made, clock, issued, codec>>

\* A script run in which "Salva" was pressed (lines 222-278).  An exception
\* of create_recipe / update_recipe ends the run where it is raised.  The
\* clock is not moved: no claim about the form reads a timestamp.
Submit ==
  /\ ~session.rerun
  /\ session.edit_id = 0 => seq < MaxId
  /\ \E mode \in Modes, title \in FormTitles, ingredients \in FormBodies,
        steps \in FormBodies, tags_input \in TagChoices, prep \in FormPreps,
        image_file \in Uploads, outcome \in UploadOutcomes, db \in BOOLEAN :
       /\ image_file = NoneVal => outcome = "ok"
       /\ FormShown(mode)
       /\ image_file # NoneVal => made < MaxFiles
       /\ IF EditTargetGone
            THEN \* st.error, edit_id = None, st.stop()
                 /\ session' = [AfterBalloons(session) EXCEPT !.edit_id = 0]
                 /\ event' = Event("submit", session.edit_id, "none", "not_found")
                 /\ last' = NoCall
                 /\ UNCHANGED <<rows, seq, files, made, issued>>
            ELSE IF strip(title) = << >> \/ strip(ingredients) = << >>
                      \/ strip(steps) = << >>
            THEN \* st.error: the mandatory fields
                 /\ session' = SessionRejected(session)
                 /\ event' = Event("submit", session.edit_id, "none", "rejected")
                 /\ last' = NoCall
                 /\ UNCHANGED <<rows, seq, files, made, issued>>
            ELSE /\ files' = FilesAfterSave(image_file, outcome)
                 /\ made' = MadeAfterSave(image_file)
                 /\ IF session.edit_id # 0
                      THEN /\ update_recipe(session.edit_id, strip(title),
                                strip(ingredients), strip(steps), tags_input,
                                FormPrep(prep), FormImagePath(image_file, outcome), db)
                           /\ UNCHANGED <<seq, issued>>
                      ELSE create_recipe(strip(title), strip(ingredients),
                                strip(steps), tags_input, FormPrep(prep),
                                FormImagePath(image_file, outcome), db)
                 /\ event' = Event("submit", session.edit_id,
                                   UploadResult(image_file, outcome),
                                   IF db THEN "saved" ELSE "error")
                 /\ session' = IF db THEN SessionSaved(session)
                                     ELSE AfterBalloons(session)
  /\ UNCHANGED <<clock, codec>>

\* The list is shown (lines 281-298) and a card of it holds recipe_id.
CardShown(mode, recipe_id) ==
  /\ ~FormShown(mode)
  /\ \E query \in {<< >>}, tags_pick \in {<< >>} :
       \E result \in search_recipes(query, tags_pick) :
          \E k \in DOMAIN result : result[k] = recipe_id

\* A script run in which the "Modifica" button of a card was pressed.
ClickEdit ==
  /\ ~session.rerun
  /\ \E mode \in Modes, recipe_id \in DOMAIN rows :
       /\ CardShown(mode, recipe_id)
       /\ session' = [AfterBalloons(session) EXCEPT !.edit_id = recipe_id,
                                                    !.rerun = TRUE]
       /\ event' = Event("edit", recipe_id, "none", "shown")
  /\ last' = NoCall
  /\ UNCHANGED <<rows, seq, files, made, clock, issued, codec>>

\* A script run in which the "Elimina" button of a card was pressed.
ClickDelete ==
  /\ ~session.rerun
  /\ \E mode \in Modes, recipe_id \in DOMAIN rows, rm \in BOOLEAN, db \in BOOLEAN :
       /\ CardShown(mode, recipe_id)
       /\ delete_recipe(recipe_id, rm, db)
       /\ session' = [AfterBalloons(session) EXCEPT !.rerun = db]
       /\ event' = Event("delete", recipe_id, "none",
                         IF db THEN "deleted" ELSE "error")
  /\ UNCHANGED <<seq, made, clock, issued, codec>>

\* The recipe is deleted from another browser session on the same database.
DeleteElsewhere ==
  /\ \E recipe_id \in DOMAIN rows, rm \in BOOLEAN :
       delete_recipe(recipe_id, rm, TRUE)
  /\ event' = NoEvent
  /\ UNCHANGED <<seq, made, clock, session, issued, codec>>

NextForm == Rerun \/ Submit \/ ClickEdit \/ ClickDelete \/ DeleteElsewhere

SpecForm == Init /\ [][NextForm]_vars

\* The step is a form submission that went on to call create_recipe or
\* update_recipe, and the call returned.
SavedBySubmit ==
  /\ event'.kind = "submit" /\ event'.result = "saved"
  /\ last'.op \in {"create", "update"} /\ last'.ok

\* C3: a submission whose upload the image store could not keep leaves an
\* edited recipe's image_path as it was, and gives a new recipe no image.
C3_FailedUploadKeepsImage ==
  [][(SavedBySubmit /\ event'.upload = "failed") =>
       IF event'.editing # 0
         THEN rows'[event'.editing].image_path = rows[event'.editing].image_path
         ELSE rows'[last'.id].image_path = NoneVal]_vars

\* title, ingredients and steps of the row are not blank.
NotBlank(r) ==
  strip(r.title) # << >> /\ strip(r.ingredients) # << >> /\ strip(r.steps) # << >>

\* C10: show_balloons is raised only by a submission that called
\* create_recipe or update_recipe, which also clears edit_id and reruns; a
\* submission rejected by validation calls neither and leaves the table,
\* show_balloons and edit_id as they were; every row a submission writes has
\* a non-blank title, ingredients and steps.
C10_SuccessOnlyAfterSave ==
  [][/\ (session'.show_balloons /\ ~session.show_balloons) =>
          /\ SavedBySubmit
          /\ session'.edit_id = 0
          /\ session'.rerun
     /\ (event'.kind = "submit" /\ event'.result = "rejected") =>
          /\ last'.op = "no_call"
          /\ rows' = rows /\ seq' = seq
          /\ session'.show_balloons = session.show_balloons
          /\ session'.edit_id = session.edit_id
     /\ event'.kind = "submit" =>
          \A i \in DOMAIN rows' :
             (i \notin DOMAIN rows \/ rows'[i] # rows[i]) => NotBlank(rows'[i])]_vars

\* C10 witness: a rejected submission in edit mode; the recipe being edited
\* is still there and edit_id still names it.
C10_Witness ==
  /\ event.kind = "submit" /\ event.result = "rejected"
  /\ session.edit_id # 0 /\ session.edit_id \in DOMAIN rows
  /\ ~session.show_balloons

====
